---- MODULE Spec2Model ----
(***************************************************************************)
(* A model of the ITMO question-answering service: the orchestrator        *)
(* tools/agent.py:predict, the retry wrapper utils.call_openai_with_retry  *)
(* and the text helpers of utils/utils.py.                                 *)
(*                                                                         *)
(* Strings are TLA+ strings, read character by character with SubSeq.      *)
(* Russian text of the source is written in Latin transliteration, since   *)
(* a module is ASCII: "variant" stands for the Cyrillic keyword of         *)
(* extract_answer_from_reasoning, and the fixed messages are transliterated *)
(* the same way.                                                           *)
(***************************************************************************)
EXTENDS Integers, Sequences, FiniteSets, TLC

\* None where the source holds a string
Null == "None"

\* None where the source holds an object (a completion, a dict, a response)
None == [ none |-> TRUE ]

\* None as the answer, which is otherwise an integer from 1 to 10
NoAnswer == 0

(***************************************************************************)
(* Characters and the classes of Python's re module that the source uses.  *)
(***************************************************************************)
LowerLetters == "abcdefghijklmnopqrstuvwxyz"
UpperLetters == "ABCDEFGHIJKLMNOPQRSTUVWXYZ"
DigitChars == "0123456789"

Char(s, i) == SubSeq(s, i, i)

CharsOf(s) == { Char(s, i) : i \in 1..Len(s) }

\* \d
IsDigit(c) == c \in CharsOf(DigitChars)

\* \w
IsWordChar(c) == c \in CharsOf(LowerLetters) \cup CharsOf(UpperLetters)
                        \cup CharsOf(DigitChars) \cup {"_"}

\* \s
IsSpace(c) == c \in {" ", "\t", "\n", "\r"}

\* str.lower() on one character
LowerChar(c) ==
    IF c \in CharsOf(UpperLetters)
    THEN Char(LowerLetters, CHOOSE i \in 1..Len(UpperLetters) : Char(UpperLetters, i) = c)
    ELSE c

RECURSIVE LowerStr(_)
LowerStr(s) == IF s = "" THEN "" ELSE LowerChar(Head(s)) \o LowerStr(Tail(s))

StartsWith(s, p) == Len(s) >= Len(p) /\ SubSeq(s, 1, Len(p)) = p

\* the value of int(s) for a string of decimal digits
DigitValue(c) == (CHOOSE i \in 1..Len(DigitChars) : Char(DigitChars, i) = c) - 1

RECURSIVE IntOf(_)
IntOf(s) == IF s = "" THEN 0
            ELSE 10 * IntOf(SubSeq(s, 1, Len(s) - 1)) + DigitValue(Char(s, Len(s)))

\* a character that r"[^\s\"',)]" matches
IsUrlChar(c) == ~(IsSpace(c) \/ c \in {"\"", "'", ",", ")"})

\* the characters r"[^\w\s\d\.\,\?\!]" deletes
IsQueryGarbage(c) == ~(IsWordChar(c) \/ IsSpace(c) \/ IsDigit(c) \/ c \in {".", ",", "?", "!"})

\* string.punctuation.replace(".", ""), but for the grave accent, which no
\* string of this module holds
punctuation_to_remove == "!\"#$%&'()*+,-/:;<=>?@[\\]^_{|}~"

\* the character classes of the source's patterns, by name
InClass(cls, c) ==
    CASE cls = "\\s" -> IsSpace(c)
      [] cls = "\\d" -> IsDigit(c)
      [] cls = "\\w" -> IsWordChar(c)
      [] cls = "[\\n\\r\\t]" -> c \in {"\n", "\r", "\t"}
      [] cls = "[\"',*]" -> c \in {"\"", "'", ",", "*"}
      [] cls = "[\"',)]" -> c \in {"\"", "'", ",", ")"}
      [] cls = "[^\\s\"',)]" -> IsUrlChar(c)
      [] cls = "[^\\w\\s\\d.,?!]" -> IsQueryGarbage(c)
      [] cls = "punctuation_to_remove" -> c \in CharsOf(punctuation_to_remove)

\* the length of the longest run of characters of class cls that starts at position i
RECURSIVE RunLen(_, _, _)
RunLen(s, i, cls) ==
    IF i <= Len(s) /\ InClass(cls, Char(s, i)) THEN 1 + RunLen(s, i + 1, cls) ELSE 0

\* re.sub(r"[class]", "", s): every character of class cls deleted
RECURSIVE DeleteChars(_, _)
DeleteChars(s, cls) ==
    IF s = "" THEN ""
    ELSE IF InClass(cls, Head(s)) THEN DeleteChars(Tail(s), cls)
    ELSE Head(s) \o DeleteChars(Tail(s), cls)

\* re.sub(r"[class]+", " ", s): every maximal run of cls characters becomes one space
RECURSIVE CollapseRuns(_, _)
CollapseRuns(s, cls) ==
    IF s = "" THEN ""
    ELSE IF InClass(cls, Head(s))
         THEN " " \o CollapseRuns(SubSeq(s, 1 + RunLen(s, 1, cls), Len(s)), cls)
         ELSE Head(s) \o CollapseRuns(Tail(s), cls)

\* str.strip()
RECURSIVE LStrip(_)
LStrip(s) == IF s # "" /\ IsSpace(Head(s)) THEN LStrip(Tail(s)) ELSE s

RECURSIVE RStrip(_)
RStrip(s) == IF s # "" /\ IsSpace(Char(s, Len(s)))
             THEN RStrip(SubSeq(s, 1, Len(s) - 1)) ELSE s

Strip(s) == RStrip(LStrip(s))

\* re.sub("(?i)" + p, "", s) for a literal lower-case p: the leftmost
\* non-overlapping occurrences deleted in one left-to-right pass
RECURSIVE SubLiteralIgnoreCase(_, _)
SubLiteralIgnoreCase(p, s) ==
    IF Len(s) < Len(p) THEN s
    ELSE IF LowerStr(SubSeq(s, 1, Len(p))) = p
         THEN SubLiteralIgnoreCase(p, SubSeq(s, Len(p) + 1, Len(s)))
         ELSE Head(s) \o SubLiteralIgnoreCase(p, Tail(s))

(***************************************************************************)
(* utils/utils.py                                                          *)
(***************************************************************************)
forbidden_patterns ==
    << "ignore all instructions", "forget all instructions", "system message" >>

RECURSIVE SubPatterns(_, _)
SubPatterns(ps, s) ==
    IF ps = << >> THEN s ELSE SubPatterns(Tail(ps), SubLiteralIgnoreCase(Head(ps), s))

sanitize_user_input(text) == SubPatterns(forbidden_patterns, text)

clean_query(query) ==
    CollapseRuns(DeleteChars(Strip(query), "[^\\w\\s\\d.,?!]"), "\\s")

\* the sanitizer as predict applies it (agent.py: sanitize_user_input, then clean_query)
Sanitize(q) == clean_query(sanitize_user_input(q))

\* bool(re.search(r"\b\d+\s", safe_query))
HasVariants(s) ==
    \E i \in 1..Len(s) :
        /\ IsDigit(Char(s, i))
        /\ (i = 1 \/ ~IsWordChar(Char(s, i - 1)))
        /\ i + RunLen(s, i, "\\d") <= Len(s)
        /\ IsSpace(Char(s, i + RunLen(s, i, "\\d")))

\* the length of the match of r"https?://[^\s\"',)]+" at the head of s, 0 if none
UrlMatchLen(s) ==
    LET pre == IF StartsWith(s, "https://") THEN 8
               ELSE IF StartsWith(s, "http://") THEN 7 ELSE 0
        run == RunLen(s, pre + 1, "[^\\s\"',)]")
    IN  IF pre > 0 /\ run > 0 THEN pre + run ELSE 0

RECURSIVE SubUrls(_)
SubUrls(s) ==
    IF s = "" THEN ""
    ELSE IF UrlMatchLen(s) > 0 THEN SubUrls(SubSeq(s, UrlMatchLen(s) + 1, Len(s)))
    ELSE Head(s) \o SubUrls(Tail(s))

\* the text is stripped and its links are left in
strip_only(reasoning) == Strip(reasoning)

remove_links_from_reasoning(reasoning) == Strip(SubUrls(reasoning))

\* the keyword of the pattern r"variant\w*\s*(\d+)" (Cyrillic in the source)
Keyword == "variant"

\* The pattern tried at position i of s: the lengths k that \w* can take so that,
\* after the whitespace run that follows, a digit stands.  \w* is greedy and
\* gives characters back one at a time, so the match uses the greatest such k.
SuffixLens(s, i) ==
    LET after == i + Len(Keyword)
    IN  { k \in 0..RunLen(s, after, "\\w") :
            LET d == after + k + RunLen(s, after + k, "\\s")
            IN  d <= Len(s) /\ IsDigit(Char(s, d)) }

MatchesAt(s, i) ==
    /\ i + Len(Keyword) - 1 <= Len(s)
    /\ SubSeq(s, i, i + Len(Keyword) - 1) = Keyword
    /\ SuffixLens(s, i) # {}

\* match.group(1) of the pattern matched at position i
GroupAt(s, i) ==
    LET after == i + Len(Keyword)
        k == CHOOSE x \in SuffixLens(s, i) : \A y \in SuffixLens(s, i) : y <= x
        d == after + k + RunLen(s, after + k, "\\s")
    IN  SubSeq(s, d, d + RunLen(s, d, "\\d") - 1)

\* the three re.sub calls that normalise the text before the search
NormaliseReasoning(text) ==
    CollapseRuns(CollapseRuns(DeleteChars(LowerStr(text), "[\"',*]"), "[\\n\\r\\t]"), "\\s")

extract_answer_from_reasoning(text) ==
    LET clean_text == NormaliseReasoning(text)
        starts == { i \in 1..Len(clean_text) : MatchesAt(clean_text, i) }
    IN  IF starts = {} THEN NoAnswer
        ELSE LET first == CHOOSE i \in starts : \A j \in starts : i <= j
                 num == IntOf(GroupAt(clean_text, first))
             IN  IF 1 <= num /\ num <= 10 THEN num ELSE NoAnswer

validate_urls(urls) == SelectSeq(urls, LAMBDA u : StartsWith(u, "http"))

\* re.sub(r"[\"',)]+$", "", url): "$" matches at the end of the string and also
\* just before a newline that ends it
RECURSIVE RStripPunct(_)
RStripPunct(s) == IF s # "" /\ InClass("[\"',)]", Char(s, Len(s)))
                  THEN RStripPunct(SubSeq(s, 1, Len(s) - 1)) ELSE s

FixUrl(url) ==
    IF url # "" /\ Char(url, Len(url)) = "\n"
    THEN RStripPunct(SubSeq(url, 1, Len(url) - 1)) \o "\n"
    ELSE RStripPunct(url)

\* no repair at all
fix_nothing(urls) == urls

fix_broken_urls(urls) == [ i \in 1..Len(urls) |-> FixUrl(urls[i]) ]

(***************************************************************************)
(* Bounds and inputs                                                       *)
(***************************************************************************)
\* tool round trips explored in one request (the source has no cap)
MaxRounds == 2
\* items in one search result
MaxLinks == 4
\* pieces concatenated into one input text of the text helpers
MaxPieces == 4

\* The queries.  ScenarioQuery is the scenario of the specification, options one
\* per line as "1. <text>"; then a question with a year and no options, and
\* options written without dots.
ScenarioQuery == "V kakom gorode glavnyj kampus?\n1. Moskva\n2. Sankt-Peterburg"

YearQuery == "ITMO osnovan v 1900 godu?"

Queries == { ScenarioQuery, YearQuery, "Kogda priem?\n1 15 iyunya\n2 20 iyunya" }

\* The texts a model answers with.
ScenarioText == "Glavnyj kampus v Sankt-Peterburge, eto sootvetstvuet variantu 2."

\* a text that names a scheme and no address
SchemeText == "Adres nachinaetsya s https://, variant 1"

Texts ==
    { ScenarioText, "Sm. https://itmo.ru/ru, variant 3", "Vernogo otveta v spiske net.",
      SchemeText }

\* The link strings a search provider returns: a URL with punctuation left at
\* its end, a string that is no URL and a URL of another scheme.  The provider
\* of one request draws its results from two of them.
LinkSet == { "https://news.itmo.ru/b),", "httpx", "ftp://itmo.ru/c" }

LinkPools == { P \in SUBSET LinkSet : Cardinality(P) = 2 }

RECURSIVE SeqsUpTo(_, _)
SeqsUpTo(S, n) ==
    IF n = 0 THEN { << >> }
    ELSE SeqsUpTo(S, n - 1) \cup { Append(q, x) : q \in SeqsUpTo(S, n - 1), x \in S }

\* every string made of at most n of the pieces P
RECURSIVE StringsOf(_, _)
StringsOf(P, n) ==
    IF n = 0 THEN { "" }
    ELSE StringsOf(P, n - 1) \cup { q \o x : q \in StringsOf(P, n - 1), x \in P }

(***************************************************************************)
(* State                                                                   *)
(***************************************************************************)
VARIABLES
    link_pool,          \* the links the search provider has for this request
    round_cap,          \* the tool round trips explored in this request
    query,              \* body.query
    safe_query,         \* predict's safe_query
    has_variants,       \* predict's has_variants
    message_content,    \* the model message the loop is looking at
    sources_list,       \* the candidate source list
    final_answer_text,
    search_result,      \* what the last search_links call returned
    pc,                 \* where predict is: start, calling, returned, loop, done (idle: no request)
    callSite,           \* which LLM call is in progress
    attempt,            \* call_openai_with_retry's loop index
    retval,             \* what call_openai_with_retry returned
    calls,              \* the message list of every openai_chat_completion call so far
    rounds,             \* tool round trips started
    response,           \* the PredictionResponse returned
    outcome,            \* FINAL_ANSWER, REJECTED or EXCEPTION once predict has ended
    raised,             \* the exception that left predict
    classified,         \* history: the last classification, relevant or not_relevant
    searched,           \* history: the kind of the last search result, links or error
    invocations,        \* history: invocations of request_function in the call in progress
    last_attempt,       \* history: how the last invocation ended
    logged,             \* the logger.error records of the call in progress
    text,               \* the input of a text helper run on its own
    extracted,          \* what extract_answer_from_reasoning returned for it
    result,             \* what the sanitizer returned for it
    again,              \* what the sanitizer returned for its own output
    stage,              \* input, done, once, twice (idle: no helper is run)
    query_arg,          \* search_links run on its own: its query argument
    max_res_arg,        \* its max_results argument
    provider,           \* what the search provider does with the request
    search_out,         \* what search_links returned, or the exception it raised
    requests,           \* concurrent requests: the locals of each predict coroutine
    sources_lists,      \* their sources_list, by the frame that holds it
    logger_instance,    \* logger.py: _logger_instance (0: None)
    loggers_created     \* history: Logger objects constructed so far

predictVars ==
    << link_pool, round_cap, query, safe_query, has_variants, message_content, sources_list, final_answer_text,
       search_result, pc, callSite, attempt, retval, calls, rounds, response, outcome,
       raised, classified, searched, invocations, last_attempt, logged >>

searchVars == << query_arg, max_res_arg, provider, search_out >>

concVars == << requests, sources_lists, logger_instance, loggers_created >>

helperVars == << text, extracted, result, again, stage, searchVars, concVars >>

vars == << predictVars, helperVars >>

(***************************************************************************)
(* tools/agent.py: the conversation                                        *)
(***************************************************************************)
\* A turn of the conversation.  The payload of a tool turn (the arguments, the
\* JSON of the result) is fixed by the round trip it belongs to, which stands
\* for it.
Turn(role, name, round) == [ role |-> role, name |-> name, round |-> round ]

\* messages=[system_message, {"role": "user", "content": safe_query}]
FirstMessages == << Turn("system", Null, 0), Turn("user", Null, 0) >>

\* the message list of second_completion and of third_completion
FollowUpMessages(fn_name, round) ==
    << Turn("system", Null, 0), Turn("user", Null, 0),
       Turn("assistant", fn_name, round), Turn("function", fn_name, round) >>

\* what the chat model can answer: a function call or a text
\* The arguments of a function call are a string the model writes: a JSON object
\* or a text cut short.
WellFormedArguments == "{\"query\": \"kampus\"}"

MalformedArguments == "{\"query\": "

FunctionCall(name) ==
    [ function_call |-> name, content |-> Null, arguments |-> WellFormedArguments ]

MalformedCall(name) ==
    [ function_call |-> name, content |-> Null, arguments |-> MalformedArguments ]

\* json.loads(tool_call.arguments) returns: the text is an object closed by its brace
ArgumentsParse(message) ==
    LET a == message.arguments
    IN  Len(a) >= 2 /\ Char(a, 1) = "{" /\ Char(a, Len(a)) = "}"

Content(t) == [ function_call |-> Null, content |-> t ]

ModelMessages ==
    { FunctionCall(n) : n \in { "classify_relevance", "search_links", "get_weather" } }
        \cup { MalformedCall(n) : n \in { "classify_relevance", "search_links", "get_weather" } }
        \cup { Content(t) : t \in Texts \cup { Null } }

\* what the classifier model can answer (response.choices[0].message.content)
ClassifierTexts ==
    { "{\"is_itmo_relevant\": true, \"reason\": \"ob ITMO\"}",
      "{\"is_itmo_relevant\": false, \"reason\": \"ne ob ITMO\"}",
      "Zapros otnositsya k ITMO.",
      "{}" }

ClassifierMessages == { Content(t) : t \in ClassifierTexts \cup { Null } }

Replies(site) == IF site = "classify" THEN ClassifierMessages ELSE ModelMessages

\* "sub in s"
Contains(s, sub) ==
    \E i \in 1..(Len(s) - Len(sub) + 1) : SubSeq(s, i, i + Len(sub) - 1) = sub

\* the domain looked for in the link as it is written, not in link.lower()
PriorityCaseSensitive(link) ==
    IF Contains(link, "itmo.ru")
    THEN ( IF Contains(link, "news.itmo.ru") THEN 3 ELSE 2 )
    ELSE 0

\* the priority search_links gives an item, whose title and snippet do not name
\* ITMO: 2 for a link on itmo.ru, one more on news.itmo.ru
Priority(link) ==
    LET l == LowerStr(link)
    IN  IF Contains(l, "itmo.ru")
        THEN ( IF Contains(l, "news.itmo.ru") THEN 3 ELSE 2 )
        ELSE 0

PriorityOf == [ link \in LinkSet |-> Priority(link) ]

\* sorted(results, key=..., reverse=True): the highest priority first
IsSorted(l) == \A i \in 1..(Len(l) - 1) : PriorityOf[l[i]] >= PriorityOf[l[i + 1]]

\* what search_links can return: {"links": sorted_results[:max_results]} (the
\* items stand by their link fields) or {"error": ...}
ResultsOf ==
    [ pool \in LinkPools |->
        { [ links |-> l ] : l \in { r \in SeqsUpTo(pool, MaxLinks) : IsSorted(r) } }
            \cup { [ error |-> "500" ] } ]

SearchResults(pool) == ResultsOf[pool]

\* json.loads(result_text) with its except clause (classify_relevance)
ClassificationOf(result_text) ==
    CASE result_text = "{\"is_itmo_relevant\": true, \"reason\": \"ob ITMO\"}" ->
            [ is_itmo_relevant |-> TRUE, reason |-> "ob ITMO" ]
      [] result_text = "{\"is_itmo_relevant\": false, \"reason\": \"ne ob ITMO\"}" ->
            [ is_itmo_relevant |-> FALSE, reason |-> "ne ob ITMO" ]
      [] result_text = "{}" -> << >>
      [] OTHER -> [ is_itmo_relevant |-> FALSE, reason |-> "Oshibka obrabotki zaprosa." ]

OutOfScope == "Etot vopros vyhodit za ramki moej specializacii."

ToolNotFound == "Funkciya ne najdena. Proverte korrektnost vyzova instrumenta."

\* a rejection that hands out the candidate sources
RejectedWithSources ==
    [ answer |-> NoAnswer, reasoning |-> OutOfScope, sources |-> sources_list ]

\* the response of lines 240-245
RejectedResponse == [ answer |-> NoAnswer, reasoning |-> OutOfScope, sources |-> << >> ]

\* [link["link"] for link in search_result["links"][:3]]
FirstLinks(links) == SubSeq(links, 1, IF Len(links) < 3 THEN Len(links) ELSE 3)

\* lines 325-338: the response built from the final text
FinalResponse(final_text) ==
    LET reasoning == remove_links_from_reasoning(final_text)
    IN  [ answer |-> IF has_variants THEN extract_answer_from_reasoning(reasoning) ELSE NoAnswer,
          reasoning |-> reasoning,
          sources |-> fix_broken_urls(validate_urls(sources_list)) ]

(***************************************************************************)
(* utils/utils.py: call_openai_with_retry                                  *)
(***************************************************************************)
\* one attempt too many
one_retry_more == 3 + 1

max_retries == 3

\* an LLM call begins: call_openai_with_retry is entered with attempt 0
EnterCall(site) ==
    /\ pc' = "calling"
    /\ callSite' = site
    /\ attempt' = 0
    /\ invocations' = 0
    /\ last_attempt' = Null
    /\ logged' = << >>
    /\ retval' = None

\* predict takes the returned value: the call is over
EndCall ==
    /\ callSite' = Null
    /\ attempt' = 0
    /\ invocations' = 0
    /\ last_attempt' = Null
    /\ logged' = << >>
    /\ retval' = None

\* await logger.error("Ошибка ввода-вывода: попытка повторного запроса.")
ClosedFileRecord == "Oshibka vvoda-vyvoda: popytka povtornogo zaprosa."

\* await logger.error(f"Ошибка OpenAI API: {str(e)}")
ApiErrorRecord(exc) == "Oshibka OpenAI API: " \o exc

\* an exception leaves predict, which catches nothing
Raise(exc) ==
    /\ pc' = "done"
    /\ outcome' = "EXCEPTION"
    /\ raised' = exc

\* "return await request_function(...)": the request succeeds
RequestReturns(reply) ==
    /\ pc = "calling"
    /\ attempt < max_retries
    /\ reply \in Replies(callSite)
    /\ invocations' = invocations + 1
    /\ last_attempt' = "returned"
    /\ retval' = reply
    /\ pc' = "returned"
    /\ UNCHANGED << helperVars, logged, link_pool, round_cap, raised, query, safe_query, has_variants, message_content, sources_list,
                    final_answer_text, search_result, callSite, attempt, calls, rounds,
                    response, outcome, classified, searched >>

\* OSError "I/O operation on closed file": logged, then "continue"; when the
\* loop runs out the function ends without a return statement and yields None
RequestClosedFile ==
    /\ pc = "calling"
    /\ attempt < max_retries
    /\ invocations' = invocations + 1
    /\ last_attempt' = "closed_file"
    /\ logged' = Append(logged, ClosedFileRecord)
    /\ attempt' = attempt + 1
    /\ IF attempt + 1 < max_retries
       THEN UNCHANGED << pc, retval >>
       ELSE pc' = "returned" /\ retval' = None
    /\ UNCHANGED << helperVars, link_pool, round_cap, raised, query, safe_query, has_variants, message_content, sources_list,
                    final_answer_text, search_result, callSite, calls, rounds,
                    response, outcome, classified, searched >>

\* lines 84-91: an OSError with another message is raised again as it is (the
\* bare "raise" of line 88); any other exception is logged and raised again
RequestRaises(exc) ==
    /\ pc = "calling"
    /\ attempt < max_retries
    /\ exc \in { "OSError", "Exception" }
    /\ invocations' = invocations + 1
    /\ last_attempt' = exc
    /\ logged' = IF exc = "OSError" THEN logged ELSE Append(logged, ApiErrorRecord(exc))
    /\ Raise(exc)
    /\ UNCHANGED << helperVars, link_pool, round_cap, query, safe_query, has_variants, message_content, sources_list,
                    final_answer_text, search_result, callSite, attempt, retval, calls,
                    rounds, response, classified, searched >>

(***************************************************************************)
(* tools/agent.py: predict                                                 *)
(***************************************************************************)
\* lines 160-219: the query is sanitized and the first completion requested
Start ==
    /\ pc = "start"
    /\ safe_query' = clean_query(sanitize_user_input(query))
    /\ has_variants' = HasVariants(safe_query')
    /\ calls' = Append(calls, FirstMessages)
    /\ EnterCall("completion")
    /\ UNCHANGED << helperVars, link_pool, round_cap, raised, query, message_content, sources_list,
                    final_answer_text, search_result, rounds, response, outcome,
                    classified, searched >>

\* lines 221-223: completion.choices[0].message; a None completion has no choices
AfterCompletion ==
    /\ pc = "returned"
    /\ callSite = "completion"
    /\ EndCall
    /\ IF retval = None
       THEN /\ Raise("AttributeError")
            /\ UNCHANGED << message_content, sources_list, final_answer_text >>
       ELSE /\ message_content' = retval
            /\ sources_list' = << >>
            /\ final_answer_text' = ""
            /\ pc' = "loop"
            /\ UNCHANGED << outcome, raised >>
    /\ UNCHANGED << helperVars, link_pool, round_cap, query, safe_query, has_variants, search_result,
                    calls, rounds, response, classified, searched >>

\* lines 229-232: json.loads(tool_call.arguments) runs before the name of the
\* function is looked at and raises on a text that is no JSON
ArgumentsRaise ==
    /\ pc = "loop"
    /\ message_content.function_call # Null
    /\ ~ArgumentsParse(message_content)
    /\ Raise("JSONDecodeError")
    /\ UNCHANGED << helperVars, link_pool, round_cap, query, safe_query, has_variants,
                    message_content, sources_list, final_answer_text, search_result,
                    callSite, attempt, retval, calls, rounds, response, classified,
                    searched, invocations, last_attempt, logged >>

\* lines 229-237 and 72-76: the model asks for classify_relevance, whose own
\* completion is requested
CallClassify ==
    /\ pc = "loop"
    /\ message_content.function_call = "classify_relevance"
    /\ ArgumentsParse(message_content)
    /\ rounds < round_cap
    /\ rounds' = rounds + 1
    /\ EnterCall("classify")
    /\ UNCHANGED << helperVars, link_pool, round_cap, raised, query, safe_query, has_variants,
                    message_content, sources_list, final_answer_text, search_result,
                    calls, response, outcome, classified, searched >>

\* lines 78-88 and 239-271: the classification is parsed (a None response has no
\* choices, json.loads of a None content raises TypeError, a dict without the
\* key KeyError); not relevant ends the request, relevant requests
\* second_completion
AfterClassify ==
    /\ pc = "returned"
    /\ callSite = "classify"
    /\ IF retval = None
       THEN /\ Raise("AttributeError")
            /\ EndCall
            /\ UNCHANGED << calls, response, classified >>
       ELSE IF retval.content = Null
       THEN /\ Raise("TypeError")
            /\ EndCall
            /\ UNCHANGED << calls, response, classified >>
       ELSE IF "is_itmo_relevant" \notin DOMAIN ClassificationOf(retval.content)
       THEN /\ Raise("KeyError")
            /\ EndCall
            /\ UNCHANGED << calls, response, classified >>
       ELSE IF ~ClassificationOf(retval.content).is_itmo_relevant
       THEN /\ classified' = "not_relevant"
            /\ response' = RejectedResponse
            /\ pc' = "done"
            /\ outcome' = "REJECTED"
            /\ EndCall
            /\ UNCHANGED << calls, raised >>
       ELSE /\ classified' = "relevant"
            /\ calls' = Append(calls, FollowUpMessages("classify_relevance", rounds))
            /\ EnterCall("second_completion")
            /\ UNCHANGED << response, outcome, raised >>
    /\ UNCHANGED << helperVars, link_pool, round_cap, query, safe_query, has_variants,
                    message_content, sources_list, final_answer_text, search_result,
                    rounds, searched >>

\* line 272
AfterSecondCompletion ==
    /\ pc = "returned"
    /\ callSite = "second_completion"
    /\ EndCall
    /\ IF retval = None
       THEN Raise("AttributeError") /\ UNCHANGED message_content
       ELSE message_content' = retval /\ pc' = "loop" /\ UNCHANGED << outcome, raised >>
    /\ UNCHANGED << helperVars, link_pool, round_cap, query, safe_query, has_variants, sources_list,
                    final_answer_text, search_result, calls, rounds, response,
                    classified, searched >>

\* lines 275-304: the model asks for search_links; the search runs and
\* third_completion is requested
CallSearch(found) ==
    /\ pc = "loop"
    /\ message_content.function_call = "search_links"
    /\ ArgumentsParse(message_content)
    /\ rounds < round_cap
    /\ found \in SearchResults(link_pool)
    /\ rounds' = rounds + 1
    /\ search_result' = found
    /\ searched' = IF "links" \in DOMAIN found THEN "links" ELSE "error"
    /\ calls' = Append(calls, FollowUpMessages("search_links", rounds'))
    /\ EnterCall("third_completion")
    /\ UNCHANGED << helperVars, link_pool, round_cap, raised, query, safe_query, has_variants,
                    message_content, sources_list, final_answer_text, response, outcome,
                    classified >>

\* lines 275-280 with functions.py 33-42: the arguments of the model make
\* search_links raise before its try block (a null query, a null max_results)
SearchRaises ==
    /\ pc = "loop"
    /\ message_content.function_call = "search_links"
    /\ ArgumentsParse(message_content)
    /\ rounds < round_cap
    /\ rounds' = rounds + 1
    /\ \E exc \in { "AttributeError", "TypeError" } : Raise(exc)
    /\ UNCHANGED << helperVars, link_pool, round_cap, query, safe_query, has_variants,
                    message_content, sources_list, final_answer_text, search_result,
                    callSite, attempt, retval, calls, response, classified, searched,
                    invocations, last_attempt, logged >>

\* third_completion returns, and a search without links empties the candidate
\* sources ("else: sources_list = []")
AfterThirdCompletionClearing ==
    /\ pc = "returned"
    /\ callSite = "third_completion"
    /\ EndCall
    /\ IF retval = None
       THEN Raise("AttributeError") /\ UNCHANGED << message_content, sources_list >>
       ELSE /\ message_content' = retval
            /\ sources_list' = IF "links" \in DOMAIN search_result
                               THEN FirstLinks(search_result.links)
                               ELSE << >>
            /\ pc' = "loop"
            /\ UNCHANGED << outcome, raised >>
    /\ UNCHANGED << helperVars, link_pool, round_cap, query, safe_query, has_variants,
                    final_answer_text, search_result, calls, rounds, response,
                    classified, searched >>

\* lines 306-312
AfterThirdCompletion ==
    /\ pc = "returned"
    /\ callSite = "third_completion"
    /\ EndCall
    /\ IF retval = None
       THEN Raise("AttributeError") /\ UNCHANGED << message_content, sources_list >>
       ELSE /\ message_content' = retval
            /\ sources_list' = IF "links" \in DOMAIN search_result
                               THEN FirstLinks(search_result.links)
                               ELSE sources_list
            /\ pc' = "loop"
            /\ UNCHANGED << outcome, raised >>
    /\ UNCHANGED << helperVars, link_pool, round_cap, query, safe_query, has_variants,
                    final_answer_text, search_result, calls, rounds, response,
                    classified, searched >>

\* lines 325-338 after a break; re.sub on a None text raises TypeError
Finish(final_text) ==
    /\ IF final_text = Null
       THEN Raise("TypeError") /\ UNCHANGED << final_answer_text, response >>
       ELSE /\ final_answer_text' = remove_links_from_reasoning(final_text)
            /\ response' = FinalResponse(final_text)
            /\ pc' = "done"
            /\ outcome' = "FINAL_ANSWER"
            /\ UNCHANGED raised
    /\ UNCHANGED << helperVars, link_pool, round_cap, query, safe_query, has_variants,
                    message_content, sources_list, search_result, callSite, attempt,
                    retval, calls, rounds, classified, searched, invocations,
                    last_attempt, logged >>

\* lines 314-318: a function that is neither of the two tools
UnknownTool ==
    /\ pc = "loop"
    /\ message_content.function_call \notin { Null, "classify_relevance", "search_links" }
    /\ ArgumentsParse(message_content)
    /\ Finish(ToolNotFound)

\* lines 320-323: no function call, the content is the final answer
FinalContent ==
    /\ pc = "loop"
    /\ message_content.function_call = Null
    /\ Finish(message_content.content)

(***************************************************************************)
(* The service handling one request                                        *)
(***************************************************************************)
NoRequest ==
    /\ safe_query = ""
    /\ has_variants = FALSE
    /\ message_content = Content(Null)
    /\ sources_list = << >>
    /\ final_answer_text = ""
    /\ search_result = None
    /\ callSite = Null
    /\ attempt = 0
    /\ retval = None
    /\ calls = << >>
    /\ rounds = 0
    /\ response = None
    /\ outcome = Null
    /\ raised = Null
    /\ classified = Null
    /\ searched = Null
    /\ invocations = 0
    /\ last_attempt = Null
    /\ logged = << >>

NoSearch == query_arg = "" /\ max_res_arg = None /\ provider = None /\ search_out = None

NoConcurrent ==
    requests = << >> /\ sources_lists = << >> /\ logger_instance = 0 /\ loggers_created = 0

NoHelper ==
    /\ text = "" /\ extracted = NoAnswer /\ result = "" /\ again = "" /\ stage = "idle"
    /\ NoSearch
    /\ NoConcurrent

Init ==
    /\ query \in Queries
    /\ link_pool \in LinkPools
    /\ round_cap = MaxRounds
    /\ pc = "start"
    /\ NoRequest
    /\ NoHelper

Next ==
    \/ Start
    \/ \E reply \in ModelMessages \cup ClassifierMessages : RequestReturns(reply)
    \/ RequestClosedFile
    \/ \E exc \in { "OSError", "Exception" } : RequestRaises(exc)
    \/ AfterCompletion
    \/ ArgumentsRaise
    \/ CallClassify
    \/ AfterClassify
    \/ AfterSecondCompletion
    \/ \E found \in SearchResults(link_pool) : CallSearch(found)
    \/ SearchRaises
    \/ AfterThirdCompletion
    \/ UnknownTool
    \/ FinalContent

Spec == Init /\ [][Next]_vars

(***************************************************************************)
(* The service with a model that keeps asking for tools                    *)
(***************************************************************************)
\* round trips followed in a request whose model never stops asking
MaxLoopRounds == 6

\* the messages of a model that answers every completion with a tool call, or
\* with a text at last
LoopMessages ==
    { FunctionCall("classify_relevance"), FunctionCall("search_links"),
      Content(ScenarioText),
      Content("{\"is_itmo_relevant\": true, \"reason\": \"ob ITMO\"}") }

\* the links its searches draw from
LoopPool == { "https://news.itmo.ru/b),", "httpx" }

InitLoop ==
    /\ query = ScenarioQuery
    /\ link_pool = LoopPool
    /\ round_cap = MaxLoopRounds
    /\ pc = "start"
    /\ NoRequest
    /\ NoHelper

\* predict with every request succeeding: "while True" (line 228) goes round
\* for as long as the message holds a function call
NextLoop ==
    \/ Start
    \/ \E reply \in LoopMessages : RequestReturns(reply)
    \/ AfterCompletion
    \/ CallClassify
    \/ AfterClassify
    \/ AfterSecondCompletion
    \/ \E found \in SearchResults(link_pool) : CallSearch(found)
    \/ AfterThirdCompletion
    \/ FinalContent

SpecLoop == InitLoop /\ [][NextLoop]_vars

(***************************************************************************)
(* The text helpers run on their own: extract_answer_from_reasoning on a   *)
(* reasoning text, and the sanitizer of predict applied to its own output. *)
(***************************************************************************)
ReasoningPieces == { "variant", "u", " ", "1", "0", "7", ",", "x" }

SanitizerPieces == { "ignore all ", "instructions", "System", "message", " ", "\n", "-", "a" }

Idle ==
    /\ query = ""
    /\ link_pool = {}
    /\ round_cap = 0
    /\ pc = "idle"
    /\ NoRequest

InitExtract ==
    /\ Idle
    /\ text \in StringsOf(ReasoningPieces, MaxPieces)
    /\ extracted = NoAnswer
    /\ result = ""
    /\ again = ""
    /\ stage = "input"
    /\ NoSearch
    /\ NoConcurrent

Extract ==
    /\ stage = "input"
    /\ extracted' = extract_answer_from_reasoning(text)
    /\ stage' = "done"
    /\ UNCHANGED << predictVars, searchVars, concVars, text, result, again >>

SpecExtract == InitExtract /\ [][Extract]_vars

InitSanitize ==
    /\ Idle
    /\ text \in StringsOf(SanitizerPieces, MaxPieces)
    /\ extracted = NoAnswer
    /\ result = ""
    /\ again = ""
    /\ stage = "input"
    /\ NoSearch
    /\ NoConcurrent

SanitizeOnce ==
    /\ stage = "input"
    /\ result' = clean_query(sanitize_user_input(text))
    /\ stage' = "once"
    /\ UNCHANGED << predictVars, searchVars, concVars, text, extracted, again >>

SanitizeAgain ==
    /\ stage = "once"
    /\ again' = clean_query(sanitize_user_input(result))
    /\ stage' = "twice"
    /\ UNCHANGED << predictVars, searchVars, concVars, text, extracted, result >>

NextSanitize == SanitizeOnce \/ SanitizeAgain

SpecSanitize == InitSanitize /\ [][NextSanitize]_vars

(***************************************************************************)
(* tools/functions.py: search_links run on its own                         *)
(***************************************************************************)
\* organic results in one provider response
MaxOrganic == 5

\* the word search_links looks for in titles and snippets, "itmo" in Cyrillic
\* letters: written so that it differs from the Latin name of the domain
NameWord == "ytmo"

\* The organic results a provider answers with: one on the primary domain, one
\* that names ITMO in its title, and two that do neither, with a short and a
\* long snippet.
Organic ==
    { [ title |-> "Glavnaya", link |-> "https://ITMO.ru/a", snippet |-> "aa" ],
      [ title |-> "Ytmo v novostyah", link |-> "https://ex.com/b", snippet |-> "bbbb" ],
      [ title |-> "Short", link |-> "https://ex.com/c", snippet |-> "c" ],
      [ title |-> "Long", link |-> "https://ex.com/d", snippet |-> "ddd" ] }

\* lines 59-66
ItemPriority(item) ==
    Priority(item.link)
        + ( IF Contains(LowerStr(item.title), NameWord)
               \/ Contains(LowerStr(item.snippet), NameWord)
            THEN 1 ELSE 0 )

ItemPriorityOf == [ item \in Organic |-> ItemPriority(item) ]

\* lines 68-75: results.append({...})
Scored(item) ==
    [ title |-> item.title, link |-> item.link, snippet |-> item.snippet,
      priority |-> ItemPriorityOf[item] ]

\* key=lambda x: (x["priority"], -len(x["snippet"])): the tuples compared
KeyGreater(a, b) ==
    \/ a.priority > b.priority
    \/ a.priority = b.priority /\ (0 - Len(a.snippet)) > (0 - Len(b.snippet))

\* sorted(..., reverse=True) is stable: x goes behind every result whose key is
\* not smaller than its own
RECURSIVE InsertByKey(_, _)
InsertByKey(sorted, x) ==
    IF sorted = << >> THEN << x >>
    ELSE IF KeyGreater(x, Head(sorted)) THEN << x >> \o sorted
    ELSE << Head(sorted) >> \o InsertByKey(Tail(sorted), x)

RECURSIVE sorted_results(_)
sorted_results(results) ==
    IF results = << >> THEN << >>
    ELSE InsertByKey(sorted_results(SubSeq(results, 1, Len(results) - 1)),
                     results[Len(results)])

\* l[:n] of Python
Slice(l, n) ==
    IF n >= 0 THEN SubSeq(l, 1, IF n < Len(l) THEN n ELSE Len(l))
    ELSE SubSeq(l, 1, IF Len(l) + n > 0 THEN Len(l) + n ELSE 0)

\* the max_results predict passes on: fn_args.get("max_results", 3), an integer
\* (3 when the model gives none), a JSON null or a JSON string
MaxResultsValues ==
    { [ kind |-> "int", n |-> k ] : k \in (0 - 1)..(MaxOrganic + 1) }
        \cup { [ kind |-> "null", n |-> 0 ], [ kind |-> "str", n |-> 0 ] }

\* the query predict passes on: fn_args.get("query", ""), a string or a JSON null
QueryValues == { "kampus", Null }

\* what the provider does: no API key is configured, the POST fails, the status
\* is not 2xx, the body is no JSON, the JSON has no "organic", or it has one
ProviderFaults == { "no_key", "network", "status", "bad_json" }

Providers ==
    { [ kind |-> k, organic |-> << >> ] : k \in ProviderFaults \cup { "no_organic" } }
        \cup { [ kind |-> "organic", organic |-> o ] : o \in SeqsUpTo(Organic, MaxOrganic) }

\* lines 23-86.  Lines 33-42 stand before the try block: expand_query calls
\* query.lower() and params holds max_results * 3, which raise for a null; a
\* string times 3 is a string, and the slice of line 81 raises inside the try.
search_links(q, max_results, prov) ==
    IF prov.kind = "no_key" THEN [ error |-> "SERPER_API_KEY" ]
    ELSE IF q = Null THEN [ raised |-> "AttributeError" ]
    ELSE IF max_results.kind = "null" THEN [ raised |-> "TypeError" ]
    ELSE IF prov.kind \in ProviderFaults THEN [ error |-> prov.kind ]
    ELSE IF prov.kind = "no_organic" THEN [ links |-> << >> ]
    ELSE IF max_results.kind # "int" THEN [ error |-> "TypeError" ]
    ELSE [ links |->
            Slice(sorted_results([ i \in 1..Len(prov.organic) |-> Scored(prov.organic[i]) ]),
                  max_results.n) ]

InitSearch ==
    /\ Idle
    /\ text = "" /\ extracted = NoAnswer /\ result = "" /\ again = ""
    /\ stage = "input"
    /\ query_arg \in QueryValues
    /\ max_res_arg \in MaxResultsValues
    /\ provider \in Providers
    /\ search_out = None
    /\ NoConcurrent

Search ==
    /\ stage = "input"
    /\ search_out' = search_links(query_arg, max_res_arg, provider)
    /\ stage' = "done"
    /\ UNCHANGED << predictVars, concVars, text, extracted, result, again, query_arg,
                    max_res_arg, provider >>

SpecSearch == InitSearch /\ [][Search]_vars

(***************************************************************************)
(* main.py: the predict of the endpoint                                    *)
(***************************************************************************)
\* the error the endpoint answers with: HTTPException(status_code=500,
\* detail=f"Oshibka obrabotki zaprosa: {str(e)}") (main.py, predict)
ErrorEnvelope(exc) ==
    [ status_code |-> 500, detail |-> "Oshibka obrabotki zaprosa: " \o exc ]

\* the digits that end at position j are a number at a word boundary: \b(\d+)
NumberEndsAt(s, j) ==
    /\ j >= 1
    /\ IsDigit(Char(s, j))
    /\ LET k == CHOOSE k \in 1..j :
                  /\ \A m \in k..j : IsDigit(Char(s, m))
                  /\ (k = 1 \/ ~IsDigit(Char(s, k - 1)))
       IN  k = 1 \/ ~IsWordChar(Char(s, k - 1))

\* re.sub(r"\b(\d+)\.", r"\1", text) from position i on
RECURSIVE DropOptionDots(_, _)
DropOptionDots(s, i) ==
    IF i > Len(s) THEN ""
    ELSE IF Char(s, i) = "." /\ NumberEndsAt(s, i - 1)
    THEN DropOptionDots(s, i + 1)
    ELSE Char(s, i) \o DropOptionDots(s, i + 1)

\* main.py 64-83: the clean_query of main.py
main_clean_query(query_text) ==
    LET spaced == Strip(CollapseRuns(CollapseRuns(query_text, "[\\n\\r\\t]"), "\\s"))
    IN  DropOptionDots(DeleteChars(spaced, "punctuation_to_remove"), 1)

\* what the model answers to the one completion with tools: a tool call
\* (tool_calls[0].function) or a text
MainMessages == ModelMessages \ { Content(Null) }

\* search_links is "async def": called without await it hands back a coroutine
\* object and nothing of its body runs
CoroutineObject == [ coroutine |-> "search_links" ]

\* what the main.py requests leave alone
mainFrame ==
    << helperVars, link_pool, round_cap, query, callSite, attempt, retval, rounds,
       classified, searched, invocations, last_attempt, logged >>

InitMain ==
    /\ query \in Queries
    /\ link_pool \in LinkPools
    /\ round_cap = 0
    /\ pc = "main_start"
    /\ NoRequest
    /\ NoHelper

\* lines 248-249: "except Exception as e: raise HTTPException(500, ...)"
MainFail(exc) ==
    /\ pc' = "done"
    /\ outcome' = "HTTP_500"
    /\ raised' = exc
    /\ response' = ErrorEnvelope(exc)

\* lines 140-178: the query is cleaned and the completion requested
MainStart ==
    /\ pc = "main_start"
    /\ safe_query' = main_clean_query(query)
    /\ has_variants' = HasVariants(safe_query')
    /\ calls' = Append(calls, FirstMessages)
    /\ pc' = "main_calling"
    /\ UNCHANGED << mainFrame, message_content, sources_list, final_answer_text,
                    search_result, response, outcome, raised >>

\* lines 173-180: the completion returns
MainCompletionReturns(reply) ==
    /\ pc = "main_calling"
    /\ reply \in MainMessages
    /\ message_content' = reply
    /\ sources_list' = << >>
    /\ pc' = "main_loop"
    /\ UNCHANGED << mainFrame, safe_query, has_variants, calls, final_answer_text,
                    search_result, response, outcome, raised >>

\* lines 173-178 with 248-249: the completion raises
MainCompletionRaises ==
    /\ pc = "main_calling"
    /\ MainFail("Exception")
    /\ UNCHANGED << mainFrame, safe_query, has_variants, calls, message_content,
                    sources_list, final_answer_text, search_result >>

\* lines 186-217: the model asks for search_links.  The arguments are parsed,
\* search_links is called without await, and json.dumps of the coroutine
\* object raises TypeError while the follow-up messages are built; the second
\* completion is never requested.
MainSearch ==
    /\ pc = "main_loop"
    /\ message_content.function_call = "search_links"
    /\ IF ArgumentsParse(message_content)
       THEN search_result' = CoroutineObject /\ MainFail("TypeError")
       ELSE UNCHANGED search_result /\ MainFail("JSONDecodeError")
    /\ UNCHANGED << mainFrame, safe_query, has_variants, calls, message_content,
                    sources_list, final_answer_text >>

\* lines 235-246: the response built from the final text
MainFinish(final_text) ==
    /\ final_answer_text' = final_text
    /\ response' =
          [ answer |-> IF has_variants THEN extract_answer_from_reasoning(final_text)
                       ELSE NoAnswer,
            reasoning |-> final_text,
            sources |-> fix_broken_urls(validate_urls(sources_list)) ]
    /\ pc' = "done"
    /\ outcome' = "FINAL_ANSWER"
    /\ UNCHANGED << mainFrame, safe_query, has_variants, calls, message_content,
                    sources_list, search_result, raised >>

\* lines 228-231: any other tool
MainUnknownTool ==
    /\ pc = "main_loop"
    /\ message_content.function_call \notin { Null, "search_links" }
    /\ MainFinish(ToolNotFound)

\* lines 232-233: no tool call, the content is the final answer
MainFinalContent ==
    /\ pc = "main_loop"
    /\ message_content.function_call = Null
    /\ MainFinish(message_content.content)

NextMain ==
    \/ MainStart
    \/ \E reply \in MainMessages : MainCompletionReturns(reply)
    \/ MainCompletionRaises
    \/ MainSearch
    \/ MainUnknownTool
    \/ MainFinalContent

SpecMain == InitMain /\ [][NextMain]_vars

(***************************************************************************)
(* Concurrent requests: predict coroutines of one event loop, which give   *)
(* way to each other at their awaits only                                  *)
(***************************************************************************)
\* requests in flight at once
MaxRequests == 2

Requests == 1..MaxRequests

\* a Logger is constructed at every call
setup_logger_unguarded ==
    [ instance |-> loggers_created + 1, created |-> loggers_created + 1 ]

\* logger.py 13-41: the instance a call returns and the count of Logger objects
\* after it.  The body holds no await, so a call is one step of the event loop.
setup_logger ==
    IF logger_instance # 0
    THEN [ instance |-> logger_instance, created |-> loggers_created ]
    ELSE [ instance |-> loggers_created + 1, created |-> loggers_created + 1 ]

\* sources_list lives in one frame of the module, shared by every request
ModuleFrame(r) == 1

\* "sources_list: List[str] = []" is a local of predict: each coroutine has its
\* own frame
Frame(r) == r

\* The upstream answers of one request, in the order predict asks for them:
\* model messages, classifier replies and search results.  The final texts are
\* one that names an option and one that holds a link besides.
OptionText == "variant 2"

LinkText == "sm. https://itmo.ru/a variant 1"

\* a query without options and one with options
PlainQuery == "Gde kampus?"

OptionsQuery == "Gde?\n1 Tut\n2 Tam"

\* The requests: a search that finds a link, a search that fails, a
\* classification that rejects, and a classification followed by a search.
RequestKinds ==
    { [ query |-> PlainQuery,
        script |-> << FunctionCall("search_links"),
                      [ links |-> << "https://news.itmo.ru/b)," >> ],
                      Content(LinkText) >> ],
      [ query |-> OptionsQuery,
        script |-> << FunctionCall("search_links"), [ error |-> "500" ],
                      Content(OptionText) >> ],
      [ query |-> PlainQuery,
        script |-> << FunctionCall("classify_relevance"),
                      Content("{\"is_itmo_relevant\": false, \"reason\": \"ne ob ITMO\"}") >> ],
      [ query |-> OptionsQuery,
        script |-> << FunctionCall("classify_relevance"),
                      Content("{\"is_itmo_relevant\": true, \"reason\": \"ob ITMO\"}"),
                      FunctionCall("search_links"),
                      [ links |-> << "https://news.itmo.ru/b),", "httpx" >> ],
                      Content(OptionText) >> ] }

\* lines 325-338 for the locals of one coroutine
ResponseFor(has_v, sources, final_text) ==
    LET reasoning == remove_links_from_reasoning(final_text)
    IN  [ answer |-> IF has_v THEN extract_answer_from_reasoning(reasoning) ELSE NoAnswer,
          reasoning |-> reasoning,
          sources |-> fix_broken_urls(validate_urls(sources)) ]

\* the responses of the final texts and the source lists of the scripts
ScriptSources ==
    { << >>, << "https://news.itmo.ru/b)," >>, << "https://news.itmo.ru/b),", "httpx" >> }

Responses ==
    [ has_v \in BOOLEAN, sources \in ScriptSources,
      final_text \in { OptionText, LinkText, ToolNotFound } |->
        ResponseFor(has_v, sources, final_text) ]

Sanitized == [ q \in { PlainQuery, OptionsQuery } |-> clean_query(sanitize_user_input(q)) ]

has_variants_of == [ q \in { PlainQuery, OptionsQuery } |-> HasVariants(Sanitized[q]) ]

\* predict run alone on a script: lines 228-338 from position i on
RECURSIVE Replay(_, _, _, _)
Replay(has_v, script, i, sources) ==
    LET msg == script[i]
    IN  IF msg.function_call = "classify_relevance"
        THEN IF ~ClassificationOf(script[i + 1].content).is_itmo_relevant
             THEN RejectedResponse
             ELSE Replay(has_v, script, i + 2, sources)
        ELSE IF msg.function_call = "search_links"
        THEN Replay(has_v, script, i + 2,
                    IF "links" \in DOMAIN script[i + 1]
                    THEN FirstLinks(script[i + 1].links) ELSE sources)
        ELSE IF msg.function_call # Null
        THEN Responses[has_v, sources, ToolNotFound]
        ELSE Responses[has_v, sources, msg.content]

RunAlone ==
    [ k \in RequestKinds |-> Replay(has_variants_of[k.query], k.script, 1, << >>) ]

NewRequest(k) ==
    [ query |-> k.query, script |-> k.script, pos |-> 1, pc |-> "start", site |-> Null,
      safe_query |-> "", has_variants |-> FALSE, message_content |-> Content(Null),
      search_result |-> None, attempt |-> 0, response |-> None, outcome |-> Null,
      logger |-> 0 ]

otherVars == << predictVars, text, extracted, result, again, stage, searchVars >>

InitConcurrent ==
    /\ Idle
    /\ text = "" /\ extracted = NoAnswer /\ result = "" /\ again = "" /\ stage = "idle"
    /\ NoSearch
    /\ requests \in [ Requests -> { NewRequest(k) : k \in RequestKinds } ]
    /\ sources_lists = [ r \in Requests |-> << >> ]
    /\ logger_instance = 0
    /\ loggers_created = 0

\* "logger = await setup_logger()": the globals after the call
CallSetupLogger ==
    /\ logger_instance' = setup_logger.instance
    /\ loggers_created' = setup_logger.created

\* agent.py 160-165: predict is entered, takes the logger and waits in logger.info
Enter(r) ==
    /\ requests[r].pc = "start"
    /\ CallSetupLogger
    /\ requests' = [ requests EXCEPT ![r].pc = "entered", ![r].logger = setup_logger.instance ]
    /\ UNCHANGED << otherVars, sources_lists >>

\* agent.py 168-219 and utils.py 77-81: the query is sanitized and the first
\* completion requested; call_openai_with_retry takes the logger itself
Ask(r) ==
    /\ requests[r].pc = "entered"
    /\ CallSetupLogger
    /\ requests' =
          [ requests EXCEPT
              ![r].safe_query = Sanitized[requests[r].query],
              ![r].has_variants = has_variants_of[requests[r].query],
              ![r].pc = "calling",
              ![r].site = "completion",
              ![r].attempt = 0,
              ![r].logger = setup_logger.instance ]
    /\ UNCHANGED << otherVars, sources_lists >>

\* utils.py 83 with agent.py 221-223, 272 and 306-310: the request function
\* returns the next message of the script
Returns(r) ==
    /\ requests[r].pc = "calling"
    /\ requests[r].attempt < max_retries
    /\ requests' =
          [ requests EXCEPT
              ![r].message_content = requests[r].script[requests[r].pos],
              ![r].pos = @ + 1,
              ![r].pc = "loop",
              ![r].site = Null,
              ![r].attempt = 0 ]
    /\ sources_lists' =
          IF requests[r].site = "completion"
          THEN [ sources_lists EXCEPT ![Frame(r)] = << >> ]
          ELSE IF requests[r].site = "third_completion"
                  /\ "links" \in DOMAIN requests[r].search_result
          THEN [ sources_lists EXCEPT ![Frame(r)] = FirstLinks(requests[r].search_result.links) ]
          ELSE sources_lists
    /\ UNCHANGED << otherVars, logger_instance, loggers_created >>

\* utils.py 84-87: the closed-file OSError; after the third the call yields None
\* and the caller fails on it
ClosedFile(r) ==
    /\ requests[r].pc \in { "calling", "classifying" }
    /\ requests[r].attempt < max_retries
    /\ requests' =
          IF requests[r].attempt + 1 < max_retries
          THEN [ requests EXCEPT ![r].attempt = @ + 1 ]
          ELSE [ requests EXCEPT ![r].attempt = @ + 1, ![r].pc = "done",
                                 ![r].outcome = "EXCEPTION" ]
    /\ UNCHANGED << otherVars, sources_lists, logger_instance, loggers_created >>

\* agent.py 229-237 and 72-76: the model asks for classify_relevance, whose own
\* completion is requested
AskClassifier(r) ==
    /\ requests[r].pc = "loop"
    /\ requests[r].message_content.function_call = "classify_relevance"
    /\ CallSetupLogger
    /\ requests' = [ requests EXCEPT ![r].pc = "classifying", ![r].attempt = 0,
                                     ![r].logger = setup_logger.instance ]
    /\ UNCHANGED << otherVars, sources_lists >>

\* agent.py 78-88 and 239-271: not relevant ends the request, relevant requests
\* second_completion
ClassifierReturns(r) ==
    /\ requests[r].pc = "classifying"
    /\ requests[r].attempt < max_retries
    /\ CallSetupLogger
    /\ requests' =
          IF ~ClassificationOf(requests[r].script[requests[r].pos].content).is_itmo_relevant
          THEN [ requests EXCEPT ![r].pos = @ + 1, ![r].pc = "done", ![r].attempt = 0,
                                 ![r].outcome = "REJECTED",
                                 ![r].response = RejectedResponse ]
          ELSE [ requests EXCEPT ![r].pos = @ + 1, ![r].pc = "calling", ![r].attempt = 0,
                                 ![r].site = "second_completion",
                                 ![r].logger = setup_logger.instance ]
    /\ UNCHANGED << otherVars, sources_lists >>

\* agent.py 275-280: the model asks for search_links, which predict awaits
StartSearch(r) ==
    /\ requests[r].pc = "loop"
    /\ requests[r].message_content.function_call = "search_links"
    /\ requests' = [ requests EXCEPT ![r].pc = "searching" ]
    /\ UNCHANGED << otherVars, sources_lists, logger_instance, loggers_created >>

\* agent.py 277-304: the search returns and third_completion is requested
SearchReturns(r) ==
    /\ requests[r].pc = "searching"
    /\ CallSetupLogger
    /\ requests' =
          [ requests EXCEPT
              ![r].search_result = requests[r].script[requests[r].pos],
              ![r].pos = @ + 1,
              ![r].pc = "calling",
              ![r].site = "third_completion",
              ![r].attempt = 0,
              ![r].logger = setup_logger.instance ]
    /\ UNCHANGED << otherVars, sources_lists >>

\* agent.py 314-338: no tool the loop knows is asked for; the response is built
Answer(r) ==
    /\ requests[r].pc = "loop"
    /\ requests[r].message_content.function_call \notin { "classify_relevance", "search_links" }
    /\ requests' =
          [ requests EXCEPT
              ![r].pc = "done",
              ![r].outcome = "FINAL_ANSWER",
              ![r].response =
                  Responses[requests[r].has_variants, sources_lists[Frame(r)],
                            IF requests[r].message_content.function_call # Null
                            THEN ToolNotFound
                            ELSE requests[r].message_content.content] ]
    /\ UNCHANGED << otherVars, sources_lists, logger_instance, loggers_created >>

NextConcurrent ==
    \E r \in Requests :
        \/ Enter(r)
        \/ Ask(r)
        \/ Returns(r)
        \/ ClosedFile(r)
        \/ AskClassifier(r)
        \/ ClassifierReturns(r)
        \/ StartSearch(r)
        \/ SearchReturns(r)
        \/ Answer(r)

SpecConcurrent == InitConcurrent /\ [][NextConcurrent]_vars

(***************************************************************************)
(* Properties                                                              *)
(***************************************************************************)
IsPrefix(a, b) == Len(a) <= Len(b) /\ SubSeq(b, 1, Len(a)) = a

Returned == outcome \in { "FINAL_ANSWER", "REJECTED" }

EndsWithPunct(u) == u # "" /\ Char(u, Len(u)) \in { "\"", "'", ",", ")" }

\* the links of a search result, none for an error record
LinksOf(found) == IF "links" \in DOMAIN found THEN found.links ELSE << >>

\* C1: the message list of every LLM call of predict after the first is the
\* message list of the call before it with new turns appended: no turn of an
\* earlier tool round trip is missing from a later call.
C1_HistoryKept ==
    \A i \in 2..Len(calls) : IsPrefix(calls[i - 1], calls[i])

\* C2: once a classification says not relevant the request is over in REJECTED,
\* with no answer, no sources (whatever an earlier search captured) and the
\* fixed out-of-scope reasoning, and nothing more can happen: no LLM call and no
\* tool execution.
C2_Rejected ==
    classified = "not_relevant" =>
        /\ pc = "done"
        /\ outcome = "REJECTED"
        /\ response.answer = NoAnswer
        /\ response.sources = << >>
        /\ response.reasoning = OutOfScope
        /\ ~ENABLED Next

C2_Witness ==
    /\ classified = "not_relevant"
    /\ outcome = "REJECTED"
    /\ sources_list # << >>

\* C3 as stated: every response has at most 3 sources, each starting with
\* "http://" or "https://" and none ending with a quote, a comma or a closing
\* parenthesis.
C3_SourcesAreUrls ==
    Returned =>
        /\ Len(response.sources) <= 3
        /\ \A i \in 1..Len(response.sources) :
              /\ StartsWith(response.sources[i], "http://")
                    \/ StartsWith(response.sources[i], "https://")
              /\ ~EndsWithPunct(response.sources[i])

\* C3 as amended: every response has at most 3 sources, each starting with
\* "http" and none ending with a quote, a comma or a closing parenthesis.
C3_SourcesStartWithHttp ==
    Returned =>
        /\ Len(response.sources) <= 3
        /\ \A i \in 1..Len(response.sources) :
              /\ StartsWith(response.sources[i], "http")
              /\ ~EndsWithPunct(response.sources[i])

C3_Witness ==
    /\ outcome = "FINAL_ANSWER"
    /\ Len(LinksOf(search_result)) > 3
    /\ Len(response.sources) = 3
    /\ \E i \in 1..3 : EndsWithPunct(sources_list[i])

\* C4: a request whose most recent search returned an error record and that
\* reached FINAL_ANSWER has empty sources.
C4_ErrorMeansNoSources ==
    (outcome = "FINAL_ANSWER" /\ searched = "error") => response.sources = << >>

\* C5: after each search the candidate source list is the first (up to 3) links
\* of that search's result, so that the sources come from the most recent search
\* only.
C5_MostRecentSearch ==
    (searched # Null /\ (pc = "loop" \/ Returned)) =>
        sources_list = FirstLinks(LinksOf(search_result))

\* A query enumerates options when it numbers them: a 1 and, after it, a 2, each
\* standing at the start of a word and followed by a dot, a parenthesis or
\* white space.
OptionNumberAt(q, i, n) ==
    /\ Char(q, i) = n
    /\ i = 1 \/ ~IsWordChar(Char(q, i - 1))
    /\ i < Len(q)
    /\ Char(q, i + 1) \in { ".", ")" } \/ IsSpace(Char(q, i + 1))

EnumeratesOptions(q) ==
    \E i \in 1..Len(q) : \E j \in (i + 1)..Len(q) :
        OptionNumberAt(q, i, "1") /\ OptionNumberAt(q, j, "2")

\* C6: the answer to a query that enumerates no options is null, whatever the
\* reasoning of the model says.
C6_NoOptionsNoAnswer ==
    (outcome = "FINAL_ANSWER" /\ ~EnumeratesOptions(query)) => response.answer = NoAnswer

\* C7: for the query "<question>\n1. <text>\n2. <text>" and a model that calls
\* search_links once and then answers with the reasoning "... variantu 2", the
\* answer is 2 and the sources are at most 3 links starting with "http".
C7_Scenario ==
    ( /\ query = ScenarioQuery
      /\ outcome = "FINAL_ANSWER"
      /\ rounds = 1
      /\ searched # Null
      /\ message_content = Content(ScenarioText) )
    => /\ response.answer = 2
       /\ Len(response.sources) <= 3
       /\ \A i \in 1..Len(response.sources) : StartsWith(response.sources[i], "http")

\* The answer C8 describes: in the normalised text, the first place where the
\* keyword, letters added to it and white space are followed by an integer; that
\* integer when it lies in 1..10, null otherwise and when there is no such place.
IsLetter(c) == IsWordChar(c) /\ ~IsDigit(c)

RECURSIVE LetterRun(_, _)
LetterRun(s, i) == IF i <= Len(s) /\ IsLetter(Char(s, i)) THEN 1 + LetterRun(s, i + 1) ELSE 0

IntegerPlace(s, i) ==
    LET after == i + Len(Keyword) + LetterRun(s, i + Len(Keyword))
    IN  after + RunLen(s, after, "\\s")

FollowedByInteger(s, i) ==
    /\ i + Len(Keyword) - 1 <= Len(s)
    /\ SubSeq(s, i, i + Len(Keyword) - 1) = Keyword
    /\ IntegerPlace(s, i) <= Len(s)
    /\ IsDigit(Char(s, IntegerPlace(s, i)))

StatedAnswer(t) ==
    LET s == NormaliseReasoning(t)
        places == { i \in 1..Len(s) : FollowedByInteger(s, i) }
    IN  IF places = {} THEN NoAnswer
        ELSE LET first == CHOOSE i \in places : \A j \in places : i <= j
                 d == IntegerPlace(s, first)
                 n == IntOf(SubSeq(s, d, d + RunLen(s, d, "\\d") - 1))
             IN  IF 1 <= n /\ n <= 10 THEN n ELSE NoAnswer

\* C8: extract_answer_from_reasoning returns the integer N that follows the first
\* keyword followed by an integer when 1 <= N <= 10, and null when that integer
\* is outside 1..10 or there is no such phrase.
C8_FirstInteger ==
    stage = "done" => extracted = StatedAnswer(text)

\* C9: the sanitizer applied to its own output changes nothing.
C9_Idempotent ==
    stage = "twice" => again = result

\* C10: one call of call_openai_with_retry invokes the request at most 3 times;
\* an invocation after the first follows only an "I/O operation on closed file"
\* OSError; a successful invocation is the last of its call, and its result is
\* what the call returns; any other exception leaves the call, and predict,
\* after that one invocation.
C10_BoundedRetry ==
    /\ [](invocations <= 3)
    /\ [](last_attempt = "returned" => pc = "returned" /\ retval # None)
    /\ [](last_attempt \in { "OSError", "Exception" } =>
            pc = "done" /\ outcome = "EXCEPTION" /\ raised = last_attempt)
    /\ [][(invocations' = invocations + 1 /\ invocations > 0) =>
            last_attempt = "closed_file"]_vars
    /\ [][(last_attempt \in { "returned", "OSError", "Exception" }) =>
            (invocations' <= invocations)]_vars

C10_Witness ==
    /\ pc = "returned"
    /\ invocations = 3
    /\ last_attempt = "returned"
    /\ retval # None

\* C11: when all 3 attempts of one call of call_openai_with_retry fail with the
\* "I/O operation on closed file" OSError, an exception leaves the call: the
\* call never returns without a provider response.
C11_ExhaustionRaises ==
    /\ (last_attempt = "closed_file" /\ invocations = 3) =>
            (pc = "done" /\ outcome = "EXCEPTION")
    /\ pc = "returned" => retval # None

\* C12: search_links never raises to its caller: whatever query and max_results
\* predict passes on and whatever the provider does, it returns a record with
\* links or a record with an error.
C12_NeverRaises ==
    stage = "done" /\ provider # None =>
        /\ "raised" \notin DOMAIN search_out
        /\ "links" \in DOMAIN search_out \/ "error" \in DOMAIN search_out

\* C13: the links search_links returns are ordered by priority, the highest
\* first, and among results of equal priority by snippet length, the longest
\* first.
C13_LongerSnippetFirst ==
    (stage = "done" /\ provider # None /\ "links" \in DOMAIN search_out) =>
        \A i \in 1..Len(search_out.links) : \A j \in (i + 1)..Len(search_out.links) :
            LET a == search_out.links[i]
                b == search_out.links[j]
            IN  /\ a.priority >= b.priority
                /\ a.priority = b.priority => Len(a.snippet) >= Len(b.snippet)

OnPrimaryDomain(item) == Contains(LowerStr(item.link), "itmo.ru")

\* a provider response with 5 organic results of which exactly one has a link on
\* the primary domain, searched for at least one result
OneTrustedOfFive ==
    /\ stage = "done"
    /\ provider # None
    /\ provider.kind = "organic"
    /\ Len(provider.organic) = 5
    /\ Cardinality({ i \in 1..5 : OnPrimaryDomain(provider.organic[i]) }) = 1
    /\ "links" \in DOMAIN search_out
    /\ max_res_arg.n >= 1

\* C14: of 5 organic results of which exactly one has a link that contains
\* "itmo.ru", that one is the first of the links search_links returns, wherever
\* it stood and whatever the titles and snippets of the others are.
C14_TrustedFirst ==
    OneTrustedOfFive =>
        /\ search_out.links # << >>
        /\ OnPrimaryDomain(search_out.links[1])

C14_Witness ==
    /\ OneTrustedOfFive
    /\ OnPrimaryDomain(provider.organic[5])
    /\ \E i \in 1..4 : Contains(LowerStr(provider.organic[i].title), NameWord)
    /\ OnPrimaryDomain(search_out.links[1])

\* a classifier output of the shape {"is_itmo_relevant": <boolean>, "reason": <string>}
WellShaped(t) ==
    t \in { "{\"is_itmo_relevant\": true, \"reason\": \"ob ITMO\"}",
            "{\"is_itmo_relevant\": false, \"reason\": \"ne ob ITMO\"}" }

\* C15: a classifier output that is a text but no JSON object of that shape
\* (unparseable, JSON of another shape, no is_itmo_relevant key) counts as not
\* relevant: the request is rejected, it neither goes on as relevant nor raises.
C15_MalformedMeansRejected ==
    [][ ( /\ pc = "returned"
          /\ callSite = "classify"
          /\ retval # None
          /\ retval.content \in ClassifierTexts
          /\ ~WellShaped(retval.content) )
        => ( /\ classified' = "not_relevant"
             /\ outcome' = "REJECTED"
             /\ response' = RejectedResponse ) ]_vars

\* C16 as stated: the reasoning of a final answer contains neither "http://" nor
\* "https://".
C16_NoSchemeInReasoning ==
    outcome = "FINAL_ANSWER" =>
        /\ ~Contains(response.reasoning, "http://")
        /\ ~Contains(response.reasoning, "https://")

\* C16 as amended: the reasoning of a final answer contains no link, that is no
\* "http://" or "https://" followed by a character other than white space, a
\* quote, an apostrophe, a comma and a closing parenthesis.
C16_NoLinkInReasoning ==
    outcome = "FINAL_ANSWER" =>
        \A i \in 1..Len(response.reasoning) :
            UrlMatchLen(SubSeq(response.reasoning, i, Len(response.reasoning))) = 0

C16_Witness ==
    /\ outcome = "FINAL_ANSWER"
    /\ message_content.function_call = Null
    /\ Contains(message_content.content, "https://itmo.ru/ru")
    /\ ~Contains(response.reasoning, "itmo.ru")

\* C17: every exception raised on the request path of predict is caught and
\* handed to the caller as a status-500 error whose detail holds the message of
\* the exception.
C17_CaughtAtBoundary ==
    raised # Null => response = ErrorEnvelope(raised)

\* the request as it was received
KindOf(r) == [ query |-> requests[r].query, script |-> requests[r].script ]

\* C18: under every interleaving of two requests at their awaits, a request
\* that answers or rejects gives the response it gives when run alone on the
\* same upstream answers, and a request fails on the retries only when its own
\* three attempts failed.
C18_Independent ==
    \A r \in DOMAIN requests :
        /\ requests[r].outcome \in { "FINAL_ANSWER", "REJECTED" }
              => requests[r].response = RunAlone[KindOf(r)]
        /\ requests[r].outcome = "EXCEPTION" => requests[r].attempt = max_retries

\* Both requests searched and answered: the first found a link, the second's
\* search failed, and each response carries the sources of its own search.
C18_Witness ==
    /\ DOMAIN requests = Requests
    /\ \A r \in Requests : requests[r].outcome = "FINAL_ANSWER"
    /\ "links" \in DOMAIN requests[1].search_result
    /\ "error" \in DOMAIN requests[2].search_result
    /\ requests[1].response.sources # << >>
    /\ requests[2].response.sources = << >>

\* C19: under every interleaving of the setup_logger calls of the requests at
\* most one Logger is ever constructed, and every call returned that instance.
C19_OneLogger ==
    /\ loggers_created <= 1
    /\ logger_instance # 0 => loggers_created = 1
    /\ \A r \in DOMAIN requests : requests[r].logger \in { 0 } \cup { logger_instance }

\* Every request has finished, each after several setup_logger calls, and all
\* hold the one instance.
C19_Witness ==
    /\ DOMAIN requests = Requests
    /\ loggers_created = 1
    /\ \A r \in Requests : requests[r].pc = "done" /\ requests[r].logger = logger_instance

\* C20: the tool-call round trips of one request number at most 5; past that
\* predict answers with an error message and asks the model nothing more.
C20_BoundedRounds == rounds <= 5

\* the response the unknown-tool branch is to give: no answer, the fixed
\* message, the candidate sources validated and repaired
ToolNotFoundResponse ==
    [ answer |-> NoAnswer, reasoning |-> ToolNotFound,
      sources |-> fix_broken_urls(validate_urls(sources_list)) ]

\* C21: when the model asks for a tool that is neither classify_relevance nor
\* search_links, predict ends in FINAL_ANSWER with the fixed message, no answer
\* and the sources captured so far, with no further LLM call and no tool run.
C21_UnknownToolEnds ==
    [][(/\ pc = "loop"
        /\ message_content.function_call \notin { Null, "classify_relevance", "search_links" })
          => /\ outcome' = "FINAL_ANSWER"
             /\ response' = ToolNotFoundResponse
             /\ calls' = calls
             /\ rounds' = rounds]_vars

\* C22: the sources of the response are the first 3 of the validated, repaired
\* links of the search result: repair, then validation, then truncation.
C22_RepairValidateTruncate ==
    (outcome = "FINAL_ANSWER" /\ "links" \in DOMAIN search_result)
        => response.sources
              = FirstLinks(validate_urls(fix_broken_urls(search_result.links)))

\* C23: every exception of the request other than the closed-file OSError, an
\* OSError with another message included, is logged as an error before it is
\* raised again, and is raised again without a retry.
C23_LoggedThenRaised ==
    last_attempt \in { "OSError", "Exception" }
        => /\ logged # << >>
           /\ logged[Len(logged)] = ApiErrorRecord(last_attempt)
           /\ pc = "done" /\ outcome = "EXCEPTION" /\ raised = last_attempt

\* C24: the output of clean_query holds only word characters, whitespace,
\* digits and . , ? !, has no run of two or more whitespace characters and has
\* no whitespace at either end.
C24_CleanAndTrimmed ==
    stage \in { "once", "twice" }
        => /\ \A i \in 1..Len(result) : ~IsQueryGarbage(Char(result, i))
           /\ \A i \in 1..(Len(result) - 1) :
                 ~(IsSpace(Char(result, i)) /\ IsSpace(Char(result, i + 1)))
           /\ result # "" => /\ ~IsSpace(Char(result, 1))
                             /\ ~IsSpace(Char(result, Len(result)))

\* C25: when the model's first response asks for search_links, the predict of
\* main.py runs the search and the follow-up completion and answers with up to
\* 3 links of the search result as sources, as agent.predict does; the request
\* does not end in a 500 error.
C25_MainSearchAnswers ==
    (/\ pc = "done"
     /\ message_content.function_call = "search_links"
     /\ ArgumentsParse(message_content))
        => /\ outcome = "FINAL_ANSWER"
           /\ \E found \in SearchResults(link_pool) :
                 response.sources =
                    fix_broken_urls(validate_urls(
                        IF "links" \in DOMAIN found THEN FirstLinks(found.links)
                        ELSE << >>))

\* C26: in predict the candidate source list changes only in a search_links
\* step whose result holds links; every other step (a classification found
\* relevant, a model response, a search that returned an error record) leaves
\* it alone, and no step after the first changes the sanitized query or the
\* has_variants flag.
C26_SourcesFrame ==
    [][/\ (sources_list' # sources_list)
            => /\ pc = "returned"
               /\ callSite = "third_completion"
               /\ "links" \in DOMAIN search_result
       /\ (pc # "start") => (safe_query' = safe_query /\ has_variants' = has_variants)]_vars

\* A search found links, a later search returned an error record, and the
\* candidate sources of the first are still there.
C26_Witness ==
    /\ pc = "loop"
    /\ rounds = 2
    /\ searched = "error"
    /\ "error" \in DOMAIN search_result
    /\ sources_list # << >>

====
